---------------------------- MODULE Spec2Model ----------------------------
(***************************************************************************)
(* Model of app.py: the response sanitizer and role normalizer             *)
(* (parse_chunks), the chunk renderer (build_chunks_html), the bracket     *)
(* colorizer (colorize_bracket_sentence) and the request handler (index).  *)
(*                                                                         *)
(* Text is a sequence of characters.  A character is written as a one      *)
(* character string, except the two characters a TLA+ string cannot hold   *)
(* (the double quote, "QUOTE", and the backtick, "BACKTICK") and the CJK    *)
(* characters of the role labels, which are written by code point          *)
(* ("U4E3B").  Markup is a sequence of pieces, one per string the code     *)
(* appends to its output.                                                  *)
(***************************************************************************)
EXTENDS Integers, Sequences, FiniteSets, TLC

VARIABLES
    \* colorize_bracket_sentence, one loop iteration per step
    input,          \* the parameter sentence_with_brackets
    pos,            \* number of characters the for loop has consumed
    html,           \* the output built so far
    stack,          \* colours of the open brackets
    current_color,  \* background colour of the span that is open, or None
    cpc,            \* "start", "loop", "done"; "off" outside SpecColorize
    \* index, one request at a time
    HAS_API_KEY,
    pc,             \* "idle", "call", "parse", "build", "colorize", "render"; "off"
    method,
    sentence,
    raw,
    chunks,
    chunks_html,
    error_msg,
    translation_zh,
    sentence_with_brackets,
    colored_brackets_html,
    calls,          \* calls of the external model made by the current request
    response,       \* what the external model did with the current request's call
    page            \* what the last rendered page displays

czvars == <<input, pos, html, stack, current_color, cpc>>
ixvars == <<HAS_API_KEY, pc, method, sentence, raw, chunks, chunks_html, error_msg,
            translation_zh, sentence_with_brackets, colored_brackets_html, calls,
            response, page>>
vars == <<input, pos, html, stack, current_color, cpc,
          HAS_API_KEY, pc, method, sentence, raw, chunks, chunks_html, error_msg,
          translation_zh, sentence_with_brackets, colored_brackets_html, calls,
          response, page>>

-----------------------------------------------------------------------------
(* Bounds *)

\* longest bracket string enumerated exhaustively
MaxLen == 4

\* longest chunk list enumerated over the small items
MaxChunks == 3

-----------------------------------------------------------------------------
(* Small helpers on sequences *)

Last(s) == s[Len(s)]

Front(s) == SubSeq(s, 1, Len(s) - 1)

RECURSIVE SeqsUpTo(_, _)
\* every sequence over S of length at most n
SeqsUpTo(S, n) ==
    IF n = 0 THEN {<<>>}
    ELSE LET shorter == SeqsUpTo(S, n - 1)
         IN  shorter \cup {Append(s, c) : s \in {t \in shorter : Len(t) = n - 1}, c \in S}

-----------------------------------------------------------------------------
(* colorize_bracket_sentence *)

None == "None"

Openers == {"(", "[", "{"}

Closers == {")", "]", "}"}

MainClauseColor == "#b91c1c"

\* color_map
color_map(ch) ==
    CASE ch = "(" -> "#fff7cc"
      [] ch = "[" -> "#ffd6e7"
      [] ch = "{" -> "#e6ccff"

\* the pieces html is made of
OpenBg(color) == [k |-> "open_bg", v |-> color]

OpenFg(color) == [k |-> "open_fg", v |-> color]

CloseSpan == [k |-> "close", v |-> "</span>"]

Ch(ch) == [k |-> "ch", v |-> ch]

\* the locals of one run: st = [html, stack, current_color]
open_span(st, new_color) ==
    LET closed == IF st.current_color # None
                  THEN Append(st.html, CloseSpan) ELSE st.html
        opened == IF new_color # None
                  THEN Append(closed, OpenBg(new_color)) ELSE closed
    IN  [st EXCEPT !.html = opened, !.current_color = new_color]

\* mutant: the character is appended without its main-clause span
add_main_clause_char_NoSpan(st, ch) ==
    [st EXCEPT !.html = Append(st.html, Ch(ch)), !.current_color = None]

add_main_clause_char(st, ch) ==
    LET closed == IF st.current_color # None
                  THEN Append(st.html, CloseSpan) ELSE st.html
    IN  [st EXCEPT !.html = closed \o <<OpenFg(MainClauseColor), Ch(ch), CloseSpan>>,
                   !.current_color = None]

\* mutant: the span is re-opened whether or not the colour changed
SwitchTo_Always(st, new_color) == open_span(st, new_color)

\* "if new_color != current_color: open_span(new_color)"
SwitchTo(st, new_color) ==
    IF new_color # st.current_color THEN open_span(st, new_color) ELSE st

Emit(st, ch) == [st EXCEPT !.html = Append(st.html, Ch(ch))]

TopOrNone(stk) == IF stk # <<>> THEN Last(stk) ELSE None

\* branch "if ch in '([{'"
OnOpener(st, ch) ==
    LET pushed == [st EXCEPT !.stack = Append(st.stack, color_map(ch))]
    IN  Emit(SwitchTo(pushed, Last(pushed.stack)), ch)

\* mutant: the bracket is popped before the closing character is rendered
OnCloser_PopFirst(st, ch) ==
    LET popped == [st EXCEPT !.stack = Front(st.stack)]
    IN  Emit(SwitchTo(popped, TopOrNone(popped.stack)), ch)

\* branch "elif ch in ')]}'" with a non-empty stack
OnCloser(st, ch) ==
    LET emitted == Emit(SwitchTo(st, Last(st.stack)), ch)
        popped  == [emitted EXCEPT !.stack = Front(emitted.stack)]
    IN  SwitchTo(popped, TopOrNone(popped.stack))

\* branch "else" with a non-empty stack
OnInside(st, ch) == Emit(SwitchTo(st, Last(st.stack)), ch)

\* the body of the for loop
LoopBody(st, ch) ==
    IF ch \in Openers THEN OnOpener(st, ch)
    ELSE IF ch \in Closers
         THEN IF st.stack # <<>> THEN OnCloser(st, ch) ELSE add_main_clause_char(st, ch)
         ELSE IF st.stack # <<>> THEN OnInside(st, ch) ELSE add_main_clause_char(st, ch)

\* mutant: the span left open at the end of the input is not closed
WrapUp_NoClose(st) == st.html

\* "if current_color is not None: html += '</span>'"
WrapUp(st) ==
    IF st.current_color # None THEN Append(st.html, CloseSpan) ELSE st.html

CzLocals == [html |-> html, stack |-> stack, current_color |-> current_color]

BracketAlphabet == {"(", ")", "[", "]", "{", "}", "A"}

\* the inputs of the spec's examples and a few deeper nestings
ExampleInputs ==
    { <<"(", "A", "B", "C", ")", "D", "E", "F">>,
      <<"A", ")", "B">>,
      <<"{", "[", "(", "A", ")", "]", "}", "B">>,
      <<"(", "A", "[", "B", "]", "C", ")">>,
      <<"(", "A", ")", "(", "B", ")">>,
      <<"(", "(", "A", ")", ")">> }

ColorizeInputs == SeqsUpTo(BracketAlphabet, MaxLen) \cup ExampleInputs

IxOff ==
    /\ HAS_API_KEY = FALSE
    /\ pc = "off"
    /\ method = "GET"
    /\ sentence = <<>>
    /\ raw = <<>>
    /\ chunks = <<>>
    /\ chunks_html = <<>>
    /\ error_msg = <<>>
    /\ translation_zh = <<>>
    /\ sentence_with_brackets = <<>>
    /\ colored_brackets_html = <<>>
    /\ calls = 0
    /\ response = <<>>
    /\ page = <<>>

CzOff ==
    /\ input = <<>>
    /\ pos = 0
    /\ html = <<>>
    /\ stack = <<>>
    /\ current_color = None
    /\ cpc = "off"

InitColorize ==
    /\ input \in ColorizeInputs
    /\ pos = 0
    /\ html = <<>>
    /\ stack = <<>>
    /\ current_color = None
    /\ cpc = "start"
    /\ IxOff

\* "if not sentence_with_brackets: return ''"
ReturnEmpty ==
    /\ cpc = "start"
    /\ input = <<>>
    /\ cpc' = "done"
    /\ UNCHANGED <<input, pos, html, stack, current_color>>
    /\ UNCHANGED ixvars

EnterLoop ==
    /\ cpc = "start"
    /\ input # <<>>
    /\ cpc' = "loop"
    /\ UNCHANGED <<input, pos, html, stack, current_color>>
    /\ UNCHANGED ixvars

Iterate(next) ==
    /\ html' = next.html
    /\ stack' = next.stack
    /\ current_color' = next.current_color
    /\ pos' = pos + 1
    /\ UNCHANGED <<input, cpc>>
    /\ UNCHANGED ixvars

LoopOpener ==
    /\ cpc = "loop"
    /\ pos < Len(input)
    /\ input[pos + 1] \in Openers
    /\ Iterate(LoopBody(CzLocals, input[pos + 1]))

LoopCloser ==
    /\ cpc = "loop"
    /\ pos < Len(input)
    /\ input[pos + 1] \in Closers
    /\ stack # <<>>
    /\ Iterate(LoopBody(CzLocals, input[pos + 1]))

LoopStrayCloser ==
    /\ cpc = "loop"
    /\ pos < Len(input)
    /\ input[pos + 1] \in Closers
    /\ stack = <<>>
    /\ Iterate(LoopBody(CzLocals, input[pos + 1]))

LoopInside ==
    /\ cpc = "loop"
    /\ pos < Len(input)
    /\ input[pos + 1] \notin Openers \cup Closers
    /\ stack # <<>>
    /\ Iterate(LoopBody(CzLocals, input[pos + 1]))

LoopMainClause ==
    /\ cpc = "loop"
    /\ pos < Len(input)
    /\ input[pos + 1] \notin Openers \cup Closers
    /\ stack = <<>>
    /\ Iterate(LoopBody(CzLocals, input[pos + 1]))

Finish ==
    /\ cpc = "loop"
    /\ pos = Len(input)
    /\ html' = WrapUp(CzLocals)
    /\ cpc' = "done"
    /\ UNCHANGED <<input, pos, stack, current_color>>
    /\ UNCHANGED ixvars

NextColorize ==
    \/ ReturnEmpty
    \/ EnterLoop
    \/ LoopOpener
    \/ LoopCloser
    \/ LoopStrayCloser
    \/ LoopInside
    \/ LoopMainClause
    \/ Finish

SpecColorize == InitColorize /\ [][NextColorize]_vars


\* the whole function on a string: the for loop run to the end
RECURSIVE Scan(_, _, _)
Scan(st, s, i) == IF i > Len(s) THEN st ELSE Scan(LoopBody(st, s[i]), s, i + 1)

colorize_bracket_sentence(s) ==
    IF s = <<>> THEN <<>>
    ELSE WrapUp(Scan([html |-> <<>>, stack |-> <<>>, current_color |-> None], s, 1))

-----------------------------------------------------------------------------
(* Text *)

\* what str.strip() removes (U3000: the ideographic space)
PyWhitespace == {" ", "\n", "\t", "\r", "U3000"}

\* what json.loads skips between tokens
JsonWhitespace == {" ", "\n", "\t", "\r"}

MinOf(S) == CHOOSE x \in S : \A y \in S : x <= y

MaxOf(S) == CHOOSE x \in S : \A y \in S : y <= x

\* str.strip()
Strip(s) ==
    LET kept == {i \in 1..Len(s) : s[i] \notin PyWhitespace}
    IN  IF kept = {} THEN <<>> ELSE SubSeq(s, MinOf(kept), MaxOf(kept))

\* str.lstrip()
LStrip(s) ==
    LET kept == {i \in 1..Len(s) : s[i] \notin PyWhitespace}
    IN  IF kept = {} THEN <<>> ELSE SubSeq(s, MinOf(kept), Len(s))

\* str.startswith(p)
StartsWith(s, p) == Len(s) >= Len(p) /\ SubSeq(s, 1, Len(p)) = p

\* first index at or after from where p occurs in s (0: nowhere)
Find(s, p, from) ==
    LET at == {k \in from..(Len(s) - Len(p) + 1) : SubSeq(s, k, k + Len(p) - 1) = p}
    IN  IF at = {} THEN 0 ELSE MinOf(at)

RECURSIVE Split(_, _)
\* str.split(sep)
Split(s, sep) ==
    LET k == Find(s, sep, 1)
    IN  IF k = 0 THEN <<s>>
        ELSE <<SubSeq(s, 1, k - 1)>> \o Split(SubSeq(s, k + Len(sep), Len(s)), sep)

\* re.search(r"(\{.*\}|\[.*\])", s, re.DOTALL): the leftmost position where
\* one alternative matches, and from there the longest match
RegexSearch(s) ==
    LET starts == {i \in 1..Len(s) :
                      \/ s[i] = "{" /\ \E j \in (i + 1)..Len(s) : s[j] = "}"
                      \/ s[i] = "[" /\ \E j \in (i + 1)..Len(s) : s[j] = "]"}
    IN  IF starts = {} THEN [found |-> FALSE, group |-> <<>>]
        ELSE LET i == MinOf(starts)
                 close == IF s[i] = "{" THEN "}" ELSE "]"
                 j == MaxOf({k \in (i + 1)..Len(s) : s[k] = close})
             IN  [found |-> TRUE, group |-> SubSeq(s, i, j)]

-----------------------------------------------------------------------------
(* JSON values and json.loads, for the part of JSON the responses use:    *)
(* objects, arrays, strings without escapes, null                         *)

\* a value: its type t, the characters s of a string, the elements a of an
\* array or the member values a of an object, and the keys of an object's
\* members, in the order of the text
JStr(chars) == [t |-> "str", s |-> chars, a |-> <<>>, keys |-> <<>>]

JArr(items) == [t |-> "arr", s |-> <<>>, a |-> items, keys |-> <<>>]

\* pairs: a sequence of <<key, value>>
JObj(pairs) ==
    [t |-> "obj", s |-> <<>>,
     a |-> [i \in 1..Len(pairs) |-> pairs[i][2]],
     keys |-> [i \in 1..Len(pairs) |-> pairs[i][1]]]

JNull == [t |-> "null", s |-> <<>>, a |-> <<>>, keys |-> <<>>]

\* a key that is absent
Missing == [t |-> "missing", s |-> <<>>, a |-> <<>>, keys |-> <<>>]

K_text == <<"t", "e", "x", "t">>

K_role == <<"r", "o", "l", "e">>

K_note == <<"n", "o", "t", "e">>

K_chunks == <<"c", "h", "u", "n", "k", "s">>

K_translation_zh == <<"t", "r", "a", "n", "s", "l", "a", "t", "i", "o", "n", "_", "z", "h">>

K_sentence_with_brackets ==
    <<"s", "e", "n", "t", "e", "n", "c", "e", "_", "w", "i", "t", "h", "_",
      "b", "r", "a", "c", "k", "e", "t", "s">>

NullWord == <<"n", "u", "l", "l">>

\* Python truthiness of a parsed value
Truthy(v) ==
    \/ v.t = "str" /\ v.s # <<>>
    \/ v.t \in {"arr", "obj"} /\ v.a # <<>>

\* dict.get(key, default): the last pair with the key wins
Get(obj, key, default) ==
    LET at == {i \in 1..Len(obj.keys) : obj.keys[i] = key}
    IN  IF at = {} THEN default ELSE obj.a[MaxOf(at)]

\* first index at or after i that holds no JSON whitespace (Len(s) + 1: none)
SkipWs(s, i) ==
    LET at == {j \in i..Len(s) : s[j] \notin JsonWhitespace}
    IN  IF at = {} THEN Len(s) + 1 ELSE MinOf(at)

Fail == [ok |-> FALSE, v |-> JNull, next |-> 0]

\* a string literal that starts at the quote s[j]; control characters are
\* refused inside it
ParseString(s, j) ==
    LET k == Find(s, <<"QUOTE">>, j + 1)
    IN  IF k = 0 THEN Fail
        ELSE IF \E m \in (j + 1)..(k - 1) : s[m] \in {"\n", "\t", "\r"} THEN Fail
        ELSE [ok |-> TRUE, v |-> JStr(SubSeq(s, j + 1, k - 1)), next |-> k + 1]

RECURSIVE ParseValue(_, _), ParseMembers(_, _, _), ParseElements(_, _, _)

\* after a member: a comma and more members, or the closing brace
MemberEnd(s, more, e) ==
    IF e > Len(s) THEN Fail
    ELSE IF s[e] = "," THEN ParseMembers(s, SkipWs(s, e + 1), more)
    ELSE IF s[e] = "}" THEN [ok |-> TRUE, v |-> JObj(more), next |-> e + 1]
    ELSE Fail

MemberAfterValue(s, acc, key, val) ==
    IF ~val.ok THEN Fail
    ELSE MemberEnd(s, Append(acc, <<key, val.v>>), SkipWs(s, val.next))

\* the colon at s[c], then the member's value
MemberColon(s, acc, key, c) ==
    IF c > Len(s) \/ s[c] # ":" THEN Fail
    ELSE MemberAfterValue(s, acc, key, ParseValue(s, c + 1))

MemberAfterKey(s, acc, key) ==
    IF ~key.ok THEN Fail ELSE MemberColon(s, acc, key.v.s, SkipWs(s, key.next))

\* the members of an object, the next one starting at s[j]
ParseMembers(s, j, acc) ==
    IF j > Len(s) \/ s[j] # "QUOTE" THEN Fail
    ELSE MemberAfterKey(s, acc, ParseString(s, j))

\* after an element: a comma and more elements, or the closing bracket
ElementEnd(s, more, e) ==
    IF e > Len(s) THEN Fail
    ELSE IF s[e] = "," THEN ParseElements(s, e + 1, more)
    ELSE IF s[e] = "]" THEN [ok |-> TRUE, v |-> JArr(more), next |-> e + 1]
    ELSE Fail

ElementAfterValue(s, acc, val) ==
    IF ~val.ok THEN Fail ELSE ElementEnd(s, Append(acc, val.v), SkipWs(s, val.next))

\* the elements of an array, the next one starting at or after s[i]
ParseElements(s, i, acc) == ElementAfterValue(s, acc, ParseValue(s, i))

\* an object whose first token after the brace is s[j]
ObjectAt(s, j) ==
    IF j <= Len(s) /\ s[j] = "}" THEN [ok |-> TRUE, v |-> JObj(<<>>), next |-> j + 1]
    ELSE ParseMembers(s, j, <<>>)

\* an array whose first token after the bracket is s[j]
ArrayAt(s, j) ==
    IF j <= Len(s) /\ s[j] = "]" THEN [ok |-> TRUE, v |-> JArr(<<>>), next |-> j + 1]
    ELSE ParseElements(s, j, <<>>)

\* the value whose first character is s[j]
ValueAt(s, j) ==
    IF j > Len(s) THEN Fail
    ELSE IF s[j] = "QUOTE" THEN ParseString(s, j)
    ELSE IF s[j] = "{" THEN ObjectAt(s, SkipWs(s, j + 1))
    ELSE IF s[j] = "[" THEN ArrayAt(s, SkipWs(s, j + 1))
    ELSE IF j + 3 <= Len(s) /\ SubSeq(s, j, j + 3) = NullWord
         THEN [ok |-> TRUE, v |-> JNull, next |-> j + 4]
    ELSE Fail

\* the value that starts at or after s[i]
ParseValue(s, i) == ValueAt(s, SkipWs(s, i))

\* the parsed value, when nothing but whitespace follows it
LoadsResult(s, r) ==
    IF r.ok /\ SkipWs(s, r.next) > Len(s) THEN [ok |-> TRUE, v |-> r.v]
    ELSE [ok |-> FALSE, v |-> JNull]

\* json.loads
json_loads(s) == LoadsResult(s, ParseValue(s, 1))

-----------------------------------------------------------------------------
(* Role labels, by code point *)

\* the canonical labels: topic, subject, object, predicate, adverbial,
\* attributive, complement, other, and the particle tag
ZHUTI == <<"U4E3B", "U9898">>

ZHUYU == <<"U4E3B", "U8BED">>

BINYU == <<"U5BBE", "U8BED">>

WEIYU == <<"U8C13", "U8BED">>

ZHUANGYU == <<"U72B6", "U8BED">>

DINGYU == <<"U5B9A", "U8BED">>

BUYU == <<"U8865", "U8BED">>

QITA == <<"U5176", "U4ED6">>

ZHUCI == <<"U52A9", "U8BCD">>

\* the legacy labels
SHUGO == <<"U4E3B", "U8A9E">>

JUTSUGO == <<"U8FF0", "U8A9E">>

MOKUTEKIGO == <<"U76EE", "U7684", "U8A9E">>

RENTAI_SHUSHOKU == <<"U9023", "U4F53", "U4FEE", "U98FE">>

RENYO_SHUSHOKU == <<"U9023", "U7528", "U4FEE", "U98FE">>

HOGO == <<"U88DC", "U8A9E">>

SHUDAI == <<"U4E3B", "U984C">>

TOPIKKU == <<"U30C8", "U30D4", "U30C3", "U30AF">>

WADAI == <<"U8A71", "U984C">>

JOGO == <<"U72B6", "U8A9E">>

SHUSHOKUGO == <<"U4FEE", "U98FE", "U8A9E">>

SONOTA == <<"U305D", "U306E", "U4ED6">>

\* the particle label of the prompt, and the legacy clause label
JOSHI == <<"U52A9", "U8A5E">>

CONGJU == <<"U4ECE", "U53E5">>

\* ROLE_COLORS, as pairs <<role, colour>>
ROLE_COLORS ==
    { <<ZHUTI, "#ffc4c4">>, <<ZHUYU, "#ffb3ba">>, <<BINYU, "#fff2a8">>,
      <<WEIYU, "#b3ffd9">>, <<ZHUANGYU, "#d9b3ff">>, <<DINGYU, "#c7b3ff">>,
      <<BUYU, "#b3e6ff">>, <<QITA, "#eeeeee">> }

\* JP_ROLE_MAP, as pairs <<legacy label, canonical label>>
JP_ROLE_MAP ==
    { <<SHUGO, ZHUYU>>, <<JUTSUGO, WEIYU>>, <<MOKUTEKIGO, BINYU>>,
      <<RENTAI_SHUSHOKU, DINGYU>>, <<RENYO_SHUSHOKU, ZHUANGYU>>, <<HOGO, BUYU>>,
      <<SHUDAI, ZHUTI>>, <<TOPIKKU, ZHUTI>>, <<WADAI, ZHUTI>>,
      <<JOGO, ZHUANGYU>>, <<SHUSHOKUGO, DINGYU>>, <<SONOTA, QITA>> }

Keys(table) == {e[1] : e \in table}

\* dict.get(key, default) on a table of pairs
Lookup(table, key, default) ==
    IF key \in Keys(table) THEN (CHOOSE e \in table : e[1] = key)[2] ELSE default

-----------------------------------------------------------------------------
(* parse_chunks *)

Fence == <<"BACKTICK", "BACKTICK", "BACKTICK">>

PreviewLen == 80

\* "if cleaned.startswith(fence): parts = cleaned.split(fence) ..."
StripFence(cleaned) ==
    IF StartsWith(cleaned, Fence)
    THEN LET parts == Split(cleaned, Fence)
         IN  IF Len(parts) >= 3 THEN Strip(parts[2]) ELSE cleaned
    ELSE cleaned

\* "if not (stripped.startswith('{') or stripped.startswith('[')): ..."
ExtractJson(cleaned) ==
    LET stripped == LStrip(cleaned)
    IN  IF ~(StartsWith(stripped, <<"{">>) \/ StartsWith(stripped, <<"[">>))
        THEN LET m == RegexSearch(cleaned)
             IN  IF m.found THEN Strip(m.group) ELSE cleaned
        ELSE cleaned

\* cleaned[:80].replace(newline, space)
Preview(cleaned) ==
    LET head == SubSeq(cleaned, 1, IF Len(cleaned) < PreviewLen THEN Len(cleaned) ELSE PreviewLen)
    IN  [i \in 1..Len(head) |-> IF head[i] = "\n" THEN " " ELSE head[i]]

\* what "for item in chunks_data" iterates over: the elements of a list,
\* the characters of a string, the keys of a dict
IterItems(v) ==
    IF v.t = "arr" THEN v.a
    ELSE IF v.t = "str" THEN [i \in 1..Len(v.s) |-> JStr(<<v.s[i]>>)]
    ELSE IF v.t = "obj" THEN [i \in 1..Len(v.keys) |-> JStr(v.keys[i])]
    ELSE <<>>

\* "if role in (JOSHI, ZHUCI): role = ZHUCI"
UnifyParticle(role) == IF role \in {JOSHI, ZHUCI} THEN ZHUCI ELSE role

\* mutant: a label the colour table lacks is kept
CoerceRole_Keep(role) == role

\* "if role not in ROLE_COLORS and role != ZHUCI: role = QITA"
CoerceRole(role) ==
    IF role \notin Keys(ROLE_COLORS) /\ role # ZHUCI THEN QITA ELSE role

\* "(role or '').strip()" raises on a truthy value that is no string
RoleRaises(item) ==
    LET role == Get(item, K_role, JStr(QITA))
    IN  Truthy(role) /\ role.t # "str"

\* the role of one item, from item.get to the unified particle tag
NormalizeRole(item) ==
    LET role == Get(item, K_role, JStr(QITA))
        trimmed == IF Truthy(role) THEN Strip(role.s) ELSE <<>>
    IN  UnifyParticle(Lookup(JP_ROLE_MAP, trimmed, trimmed))

\* mutant: the test is inverted, and the chunks with text are skipped
KeepsChunk_Inverted(item) == ~Truthy(Get(item, K_text, JStr(<<>>)))

\* "if not text: continue"
KeepsChunk(item) == Truthy(Get(item, K_text, JStr(<<>>)))

\* the chunk appended for one item
MakeChunk(item) ==
    [text |-> Get(item, K_text, JStr(<<>>)),
     role |-> CoerceRole(NormalizeRole(item)),
     note |-> Get(item, K_note, JStr(<<>>))]

\* the loop over chunks_data, which raises AttributeError on an item that is
\* no dict (item.get) or whose role is a truthy value that is no string
ChunkLoop(items) ==
    IF \E i \in 1..Len(items) : items[i].t # "obj" \/ RoleRaises(items[i])
    THEN [ok |-> FALSE, chunks |-> <<>>]
    ELSE LET kept == SelectSeq(items, KeepsChunk)
         IN  [ok |-> TRUE, chunks |-> [i \in 1..Len(kept) |-> MakeChunk(kept[i])]]

\* "x or ''"
OrEmpty(v) == IF Truthy(v) THEN v ELSE JStr(<<>>)

Raise(e) ==
    [ok |-> FALSE, e |-> e, chunks |-> <<>>,
     translation_zh |-> JStr(<<>>), sentence_with_brackets |-> JStr(<<>>)]

parse_chunks(raw_text) ==
    LET cleaned == Strip(raw_text)
    IN  IF cleaned = <<>> THEN Raise(<<"ValueError: the model returned nothing">>)
        ELSE
        LET text == ExtractJson(StripFence(cleaned))
            data == json_loads(text)
        IN  IF ~data.ok
            THEN Raise(<<"ValueError: the model output is not valid JSON (first 80): ">>
                       \o Preview(text))
            ELSE
            LET chunks_data ==
                    IF data.v.t = "obj"
                    THEN LET c == Get(data.v, K_chunks, JArr(<<>>))
                         IN  IF Truthy(c) THEN c ELSE JArr(<<>>)
                    ELSE IF data.v.t = "arr" THEN data.v
                    ELSE JArr(<<>>)
                loop == ChunkLoop(IterItems(chunks_data))
            IN  IF ~loop.ok THEN Raise(<<"AttributeError">>)
                ELSE [ok |-> TRUE, e |-> <<>>, chunks |-> loop.chunks,
                      translation_zh |->
                          IF data.v.t = "obj"
                          THEN OrEmpty(Get(data.v, K_translation_zh, JStr(<<>>)))
                          ELSE JStr(<<>>),
                      sentence_with_brackets |->
                          IF data.v.t = "obj"
                          THEN OrEmpty(Get(data.v, K_sentence_with_brackets, JStr(<<>>)))
                          ELSE JStr(<<>>)]

-----------------------------------------------------------------------------
(* build_chunks_html *)

\* mutant: a particle is filled like any other chunk
Fragment_FilledParticle(item) ==
    [class |-> "word", label |-> item.role,
     fill |-> Lookup(ROLE_COLORS, item.role, Lookup(ROLE_COLORS, QITA, None)),
     text |-> item.text, note |-> JStr(<<>>)]

\* the piece appended for one chunk: its css class, the text of its label
\* line, its background colour (None: no style), its text, and the note in
\* its tooltip (empty: no tooltip)
Fragment(item) ==
    IF item.role = ZHUCI
    THEN [class |-> "word particle", label |-> <<"&nbsp;">>, fill |-> None,
          text |-> item.text,
          note |-> IF Truthy(item.note) THEN item.note ELSE JStr(ZHUCI)]
    ELSE [class |-> "word", label |-> item.role,
          fill |-> Lookup(ROLE_COLORS, item.role, Lookup(ROLE_COLORS, QITA, None)),
          text |-> item.text, note |-> JStr(<<>>)]

HasText(item) == Truthy(item.text)

build_chunks_html(chs) ==
    LET shown == SelectSeq(chs, HasText)
    IN  [i \in 1..Len(shown) |-> Fragment(shown[i])]

-----------------------------------------------------------------------------
(* The responses of the external model *)

RECURSIVE Dumps(_), DumpsElements(_, _), DumpsMembers(_, _)

\* the JSON text of a value, with ", " and ": " as separators
Dumps(v) ==
    IF v.t = "str" THEN <<"QUOTE">> \o v.s \o <<"QUOTE">>
    ELSE IF v.t = "arr" THEN <<"[">> \o DumpsElements(v.a, 1) \o <<"]">>
    ELSE IF v.t = "obj" THEN <<"{">> \o DumpsMembers(v, 1) \o <<"}">>
    ELSE NullWord

DumpsElements(items, i) ==
    IF i > Len(items) THEN <<>>
    ELSE Dumps(items[i]) \o (IF i < Len(items) THEN <<",", " ">> ELSE <<>>)
         \o DumpsElements(items, i + 1)

DumpsMembers(obj, i) ==
    IF i > Len(obj.keys) THEN <<>>
    ELSE <<"QUOTE">> \o obj.keys[i] \o <<"QUOTE", ":", " ">> \o Dumps(obj.a[i])
         \o (IF i < Len(obj.keys) THEN <<",", " ">> ELSE <<>>)
         \o DumpsMembers(obj, i + 1)

\* one pair, or none for an absent key
Pair(key, v) == IF v.t = "missing" THEN <<>> ELSE <<<<key, v>>>>

\* a chunk item {text, role, note} of a response; it: [text, role, note]
ItemJson(it) == JObj(Pair(K_text, it.text) \o Pair(K_role, it.role) \o Pair(K_note, it.note))

ItemsJson(items) == JArr([i \in 1..Len(items) |-> ItemJson(items[i])])

K_sentence == <<"s", "e", "n", "t", "e", "n", "c", "e">>

\* the documented shape {sentence, sentence_with_brackets, translation_zh, chunks}
DocJson(swb, tr, chunks_value) ==
    JObj(<<<<K_sentence, JStr(<<"S">>)>>>> \o Pair(K_sentence_with_brackets, swb)
         \o Pair(K_translation_zh, tr) \o Pair(K_chunks, chunks_value))

\* the role strings a response may carry: the legacy labels, the canonical
\* labels, the particle and clause labels, no label, an unknown label, and
\* labels with whitespace around them
RawRoles ==
    Keys(JP_ROLE_MAP) \cup Keys(ROLE_COLORS)
    \cup {ZHUCI, JOSHI, CONGJU, <<>>, <<"x">>, <<" ">>}
    \cup {<<" ">> \o SHUGO \o <<" ">>, <<"U3000">> \o JOSHI, ZHUCI \o <<" ">>,
          <<" ">> \o ZHUYU, <<" ", "x">>, CONGJU \o <<" ">>}

RoleValues ==
    {JStr(r) : r \in RawRoles} \cup {Missing, JNull, JArr(<<>>), JArr(<<JStr(<<"x">>)>>)}

TextValues == {Missing, JNull, JStr(<<>>), JStr(<<"A">>)}

NoteValues == {Missing, JStr(<<"n">>)}

SingleItems == [text : TextValues, role : RoleValues, note : NoteValues]

SmallItems == [text : {JStr(<<>>), JStr(<<"A">>), JStr(<<"B">>)}, role : {JStr(SHUGO), JStr(JOSHI)},
               note : {JStr(<<"n">>)}]

ChunkLists ==
    {<<>>} \cup {<<it>> : it \in SingleItems}
    \cup {l \in SeqsUpTo(SmallItems, MaxChunks) : Len(l) >= 2}

SwbText == <<"(", "A", ")", "B">>

\* a response of the documented shape for every chunk list; c.raw is the text,
\* c.items the chunk list it spells
DocCases ==
    {[raw |-> Dumps(DocJson(JStr(SwbText), JStr(<<"T">>), ItemsJson(l))), items |-> l] :
        l \in ChunkLists}

OneItem == <<[text |-> JStr(<<"A">>), role |-> JStr(SHUGO), note |-> Missing]>>

\* the other shapes: a bare array, an object of chunks only, fields that are
\* null, no list or no string, and values that are no object at all
OtherDocs ==
    { ItemsJson(OneItem),
      JObj(Pair(K_chunks, ItemsJson(OneItem))),
      DocJson(JNull, JNull, ItemsJson(OneItem)),
      DocJson(JStr(<<"A", ")", "B", "(">>), Missing, ItemsJson(OneItem)),
      DocJson(JArr(<<JArr(<<>>)>>), JStr(<<"T">>), ItemsJson(OneItem)),
      DocJson(JArr(<<JStr(<<"(">>), JStr(<<"A">>)>>), JStr(<<"T">>), ItemsJson(OneItem)),
      DocJson(JArr(<<JStr(<<"(", "[">>)>>), JStr(<<"T">>), ItemsJson(OneItem)),
      DocJson(JStr(SwbText), JStr(<<"T">>), JStr(<<"x">>)),
      DocJson(JStr(SwbText), JStr(<<"T">>), JArr(<<JStr(<<"x">>)>>)),
      DocJson(JStr(SwbText), JStr(<<"T">>), JNull),
      JStr(<<"a", "b", "c">>),
      JNull }

\* the object texts J whose wrapped forms are enumerated: the spec's example,
\* a response of the documented shape, and one whose chunk text is a fence
PlainObjects ==
    { Dumps(JObj(Pair(K_chunks, JArr(<<>>)))),
      Dumps(DocJson(JStr(SwbText), JStr(<<"T">>), ItemsJson(OneItem))),
      Dumps(DocJson(Missing, Missing,
                    ItemsJson(<<[text |-> JStr(Fence), role |-> JStr(ZHUYU), note |-> Missing]>>))) }

K_json == <<"j", "s", "o", "n">>

ProseBefore == <<"S", "u", "r", "e", "!", " ">>

ProseAfter == <<" ", "H", "o", "p", "e", " ", "t", "h", "a", "t", " ", "h", "e", "l", "p", "s", ".">>

\* J in a fence with the language tag or without it, or between two pieces
\* of prose
Wrap(w, j) ==
    CASE w = "fence_json" -> Fence \o K_json \o <<"\n">> \o j \o <<"\n">> \o Fence
      [] w = "fence" -> Fence \o <<"\n">> \o j \o <<"\n">> \o Fence
      [] w = "prose" -> ProseBefore \o j \o ProseAfter

Wrappers == {"fence_json", "fence", "prose"}

\* c.raw: the wrapped text as call_gemini returns it; c.plain: J alone
WrapCases == {[raw |-> Strip(Wrap(w, j)), plain |-> j, w |-> w] : w \in Wrappers, j \in PlainObjects}

\* texts that are no JSON, or hold more than the JSON
OtherTexts ==
    { <<>>, <<" ", "\n">>, <<"x">>, <<"{">>,
      Dumps(JObj(Pair(K_chunks, JArr(<<>>)))) \o ProseAfter,
      <<"S", "e", "e", " ", "{", "x", "}", ":", " ">> \o Dumps(JObj(Pair(K_chunks, JArr(<<>>)))),
      Fence \o K_json \o <<"\n">> \o Dumps(JObj(Pair(K_chunks, JArr(<<>>)))),
      <<"\n", " ">> \o Dumps(ItemsJson(OneItem)) \o <<" ", "\n">> }

Responses ==
    {c.raw : c \in DocCases} \cup {Dumps(d) : d \in OtherDocs}
    \cup {Wrap(w, j) : w \in Wrappers, j \in PlainObjects} \cup OtherTexts

-----------------------------------------------------------------------------
(* index *)

\* s is a substring of t ("s in t" on strings)
IsSubstr(s, t) == \E k \in 1..(Len(t) + 1) : k + Len(s) - 1 <= Len(t) /\ SubSeq(t, k, k + Len(s) - 1) = s

\* colorize_bracket_sentence on the value parse_chunks returned, which need
\* not be a string: "for ch in" iterates over a list's elements or a dict's
\* keys, "ch in '([{'" raises TypeError on an element that is no string, and
\* color_map[ch] raises KeyError on a string of '([{' that is no single
\* bracket.  A list of other strings of several characters has no behaviour
\* here; no enumerated response holds one.
ColorizeValue(v) ==
    IF ~Truthy(v) THEN [ok |-> TRUE, e |-> <<>>, html |-> <<>>]
    ELSE IF v.t = "str" THEN [ok |-> TRUE, e |-> <<>>, html |-> colorize_bracket_sentence(v.s)]
    ELSE LET items == IterItems(v)
             bad == {i \in 1..Len(items) : items[i].t # "str" \/ Len(items[i].s) # 1}
         IN  IF bad = {}
             THEN [ok |-> TRUE, e |-> <<>>,
                   html |-> colorize_bracket_sentence([i \in 1..Len(items) |-> items[i].s[1]])]
             ELSE LET first == items[MinOf(bad)]
                  IN  CASE first.t # "str" -> [ok |-> FALSE, e |-> <<"TypeError">>, html |-> <<>>]
                        [] first.t = "str" /\ IsSubstr(first.s, <<"(", "[", "{">>) ->
                               [ok |-> FALSE, e |-> <<"KeyError">>, html |-> <<>>]

\* the prefixes of the two except clauses
GeminiErrorPrefix == "Gemini call error: "

JsonErrorPrefix == "JSON parse error: "

\* mutant: the result block is shown whenever there are chunks
PAGE_TEMPLATE_NoErrorCheck(has_api_key, sent, err, ch_html, tr, swb, colored) ==
    LET show == sent # <<>> /\ ch_html # <<>>
    IN  [rendered |-> TRUE,
         config_error |-> ~has_api_key,
         disabled |-> ~has_api_key,
         sentence |-> sent,
         error_msg |-> err,
         brackets |-> IF show /\ Truthy(swb) THEN colored ELSE <<>>,
         translation |-> IF show /\ Truthy(tr) THEN tr ELSE JStr(<<>>),
         chunks |-> IF show THEN ch_html ELSE <<>>,
         no_result |-> ~show /\ sent = <<>>]

\* what the template displays: the configuration error and the disabled
\* button, the sentence, the error box, and the result block
PAGE_TEMPLATE(has_api_key, sent, err, ch_html, tr, swb, colored) ==
    LET show == sent # <<>> /\ err = <<>> /\ ch_html # <<>>
    IN  [rendered |-> TRUE,
         config_error |-> ~has_api_key,
         disabled |-> ~has_api_key,
         sentence |-> sent,
         error_msg |-> err,
         brackets |-> IF show /\ Truthy(swb) THEN colored ELSE <<>>,
         translation |-> IF show /\ Truthy(tr) THEN tr ELSE JStr(<<>>),
         chunks |-> IF show THEN ch_html ELSE <<>>,
         no_result |-> ~show /\ sent = <<>>]

NoPage ==
    [rendered |-> FALSE, config_error |-> FALSE, disabled |-> FALSE, sentence |-> <<>>,
     error_msg |-> <<>>, brackets |-> <<>>, translation |-> JStr(<<>>), chunks |-> <<>>,
     no_result |-> FALSE]

NoResponse == [kind |-> "none", text |-> <<>>]

\* what the form may carry in its sentence field
FormSentences == {<<>>, <<" ">>, <<"S">>, <<" ", "S", "\n">>}

\* how the external call may fail
CallFailures == {"timeout", "transport failure"}

Init ==
    /\ HAS_API_KEY \in BOOLEAN
    /\ pc = "idle"
    /\ method = "GET"
    /\ sentence = <<>>
    /\ raw = <<>>
    /\ chunks = <<>>
    /\ chunks_html = <<>>
    /\ error_msg = <<>>
    /\ translation_zh = JStr(<<>>)
    /\ sentence_with_brackets = JStr(<<>>)
    /\ colored_brackets_html = <<>>
    /\ calls = 0
    /\ response = NoResponse
    /\ page = NoPage
    /\ CzOff

\* a request arrives: the locals are initialised, and a POST reads the form
Request(m, s) ==
    /\ pc = "idle"
    /\ method' = m
    /\ sentence' = IF m = "POST" THEN Strip(s) ELSE <<>>
    /\ raw' = <<>>
    /\ chunks' = <<>>
    /\ chunks_html' = <<>>
    /\ error_msg' = <<>>
    /\ translation_zh' = JStr(<<>>)
    /\ sentence_with_brackets' = JStr(<<>>)
    /\ colored_brackets_html' = <<>>
    /\ calls' = 0
    /\ response' = NoResponse
    /\ page' = NoPage
    /\ pc' = IF m = "POST" /\ Strip(s) # <<>> /\ HAS_API_KEY THEN "call" ELSE "render"
    /\ UNCHANGED HAS_API_KEY
    /\ UNCHANGED czvars

\* call_gemini returns the stripped text of the model's response
CallReturns(text) ==
    /\ pc = "call"
    /\ HAS_API_KEY
    /\ calls' = calls + 1
    /\ response' = [kind |-> "text", text |-> text]
    /\ raw' = Strip(text)
    /\ pc' = "parse"
    /\ UNCHANGED <<HAS_API_KEY, method, sentence, chunks, chunks_html, error_msg,
                   translation_zh, sentence_with_brackets, colored_brackets_html, page>>
    /\ UNCHANGED czvars

\* call_gemini raises; the outer except clause sets the message
CallRaises(failure) ==
    /\ pc = "call"
    /\ calls' = calls + 1
    /\ response' = [kind |-> failure, text |-> <<>>]
    /\ error_msg' = <<GeminiErrorPrefix, failure>>
    /\ pc' = "render"
    /\ UNCHANGED <<HAS_API_KEY, method, sentence, raw, chunks, chunks_html,
                   translation_zh, sentence_with_brackets, colored_brackets_html, page>>
    /\ UNCHANGED czvars

\* "except Exception as e: error_msg = ..." of the inner try
AfterParseRaises(e) == <<JsonErrorPrefix>> \o e

ParseReturns ==
    /\ pc = "parse"
    /\ parse_chunks(raw).ok
    /\ chunks' = parse_chunks(raw).chunks
    /\ translation_zh' = parse_chunks(raw).translation_zh
    /\ sentence_with_brackets' = parse_chunks(raw).sentence_with_brackets
    /\ pc' = "build"
    /\ UNCHANGED <<HAS_API_KEY, method, sentence, raw, chunks_html, error_msg,
                   colored_brackets_html, calls, response, page>>
    /\ UNCHANGED czvars

ParseRaises ==
    /\ pc = "parse"
    /\ ~parse_chunks(raw).ok
    /\ error_msg' = AfterParseRaises(parse_chunks(raw).e)
    /\ pc' = "render"
    /\ UNCHANGED <<HAS_API_KEY, method, sentence, raw, chunks, chunks_html,
                   translation_zh, sentence_with_brackets, colored_brackets_html,
                   calls, response, page>>
    /\ UNCHANGED czvars

BuildChunksHtml ==
    /\ pc = "build"
    /\ chunks_html' = build_chunks_html(chunks)
    /\ pc' = "colorize"
    /\ UNCHANGED <<HAS_API_KEY, method, sentence, raw, chunks, error_msg,
                   translation_zh, sentence_with_brackets, colored_brackets_html,
                   calls, response, page>>
    /\ UNCHANGED czvars

ColorizeReturns ==
    /\ pc = "colorize"
    /\ ColorizeValue(sentence_with_brackets).ok
    /\ colored_brackets_html' = ColorizeValue(sentence_with_brackets).html
    /\ pc' = "render"
    /\ UNCHANGED <<HAS_API_KEY, method, sentence, raw, chunks, chunks_html, error_msg,
                   translation_zh, sentence_with_brackets, calls, response, page>>
    /\ UNCHANGED czvars

ColorizeRaises ==
    /\ pc = "colorize"
    /\ ~ColorizeValue(sentence_with_brackets).ok
    /\ error_msg' = AfterParseRaises(ColorizeValue(sentence_with_brackets).e)
    /\ pc' = "render"
    /\ UNCHANGED <<HAS_API_KEY, method, sentence, raw, chunks, chunks_html,
                   translation_zh, sentence_with_brackets, colored_brackets_html,
                   calls, response, page>>
    /\ UNCHANGED czvars

\* "return render_template_string(PAGE_TEMPLATE, ...)"
Render ==
    /\ pc = "render"
    /\ page' = PAGE_TEMPLATE(HAS_API_KEY, sentence, error_msg, chunks_html, translation_zh,
                             sentence_with_brackets, colored_brackets_html)
    /\ pc' = "idle"
    /\ UNCHANGED <<HAS_API_KEY, method, sentence, raw, chunks, chunks_html, error_msg,
                   translation_zh, sentence_with_brackets, colored_brackets_html,
                   calls, response>>
    /\ UNCHANGED czvars

Next ==
    \/ \E m \in {"GET", "POST"}, s \in FormSentences : Request(m, s)
    \/ \E text \in Responses : CallReturns(text)
    \/ \E failure \in CallFailures : CallRaises(failure)
    \/ ParseReturns
    \/ ParseRaises
    \/ BuildChunksHtml
    \/ ColorizeReturns
    \/ ColorizeRaises
    \/ Render

Spec == Init /\ [][Next]_vars

-----------------------------------------------------------------------------
(* Properties of colorize_bracket_sentence, under SpecColorize *)

IsOpen(p) == p.k \in {"open_bg", "open_fg"}

IsClose(p) == p.k = "close"

IsCh(p) == p.k = "ch"

Opens(h, n) == Cardinality({j \in 1..n : IsOpen(h[j])})

Closes(h, n) == Cardinality({j \in 1..n : IsClose(h[j])})

\* the characters of the output, markup removed
Text(h) == LET chs == SelectSeq(h, IsCh) IN [i \in 1..Len(chs) |-> chs[i].v]

\* where the i-th character of the output stands in h
ChPos(h, i) ==
    CHOOSE k \in 1..Len(h) : IsCh(h[k]) /\ Cardinality({j \in 1..k : IsCh(h[j])}) = i

NoSpan == [k |-> "none", v |-> ""]

\* the span that is open at position k of h: the last markup piece before k,
\* when that piece opens a span
SpanAt(h, k) ==
    LET before == {j \in 1..(k - 1) : ~IsCh(h[j])}
    IN  IF before = {} THEN NoSpan
        ELSE LET j == CHOOSE m \in before : \A n \in before : n <= m
             IN  IF IsOpen(h[j]) THEN h[j] ELSE NoSpan

\* +1 for every opening bracket of s[p..q], -1 for every closing one
Balance(s, p, q) ==
    Cardinality({j \in p..q : s[j] \in Openers}) - Cardinality({j \in p..q : s[j] \in Closers})

\* the closing bracket that ends the bracket opened at p (0: none)
Match(s, p) ==
    LET ends == {q \in (p + 1)..Len(s) : Balance(s, p, q) = 0}
    IN  IF ends = {} THEN 0 ELSE CHOOSE q \in ends : \A r \in ends : q <= r

CloserOf(ch) ==
    CASE ch = "(" -> ")"
      [] ch = "[" -> "]"
      [] ch = "{" -> "}"

\* well-formed and properly nested: no prefix closes more than it opens, every
\* bracket is closed, and by a closing bracket of its own kind
WellFormed(s) ==
    /\ \A q \in 1..Len(s) : Balance(s, 1, q) >= 0
    /\ Balance(s, 1, Len(s)) = 0
    /\ \A p \in 1..Len(s) : s[p] \in Openers => s[Match(s, p)] = CloserOf(s[p])

\* the opening bracket of the innermost bracket pair that holds position i,
\* the brackets themselves included (0: position i is outside every bracket)
Innermost(s, i) ==
    LET holds == {p \in 1..i : s[p] \in Openers /\ Match(s, p) >= i}
    IN  IF holds = {} THEN 0 ELSE CHOOSE p \in holds : \A r \in holds : r <= p

ExpectedSpan(s, i) ==
    IF Innermost(s, i) = 0 THEN OpenFg(MainClauseColor)
    ELSE OpenBg(color_map(s[Innermost(s, i)]))

Yellow == "#fff7cc"

\* C2: whatever the brackets of the input (unclosed, unmatched, of the wrong
\* kind), no prefix of the output closes more spans than it has opened, and
\* the finished output closes as many spans as it opens.
C2_SpansBalanced ==
    /\ \A n \in 0..Len(html) : Closes(html, n) <= Opens(html, n)
    /\ cpc = "done" => Closes(html, Len(html)) = Opens(html, Len(html))

\* a finished run on an input that starts with an unmatched closing bracket
\* and ends inside a bracket that is never closed
C2_Witness ==
    /\ cpc = "done"
    /\ Len(input) >= 3
    /\ input[1] \in Closers
    /\ stack # <<>>
    /\ Opens(html, Len(html)) >= 2

\* C3: for a well-formed input the output spells the input, every bracket
\* and every character inside brackets stands in a span with the background
\* colour of the innermost enclosing bracket's kind, and every character
\* outside brackets stands in a span with the main-clause foreground colour.
C3_InnermostColour ==
    (cpc = "done" /\ WellFormed(input)) =>
        /\ Text(html) = input
        /\ \A i \in 1..Len(input) :
               SpanAt(html, ChPos(html, i)) = ExpectedSpan(input, i)

\* the spec's example (ABC)DEF, rendered
C3_Witness ==
    /\ cpc = "done"
    /\ input = <<"(", "A", "B", "C", ")", "D", "E", "F">>
    /\ html = <<OpenBg(Yellow), Ch("("), Ch("A"), Ch("B"), Ch("C"), Ch(")"), CloseSpan,
                OpenFg(MainClauseColor), Ch("D"), CloseSpan,
                OpenFg(MainClauseColor), Ch("E"), CloseSpan,
                OpenFg(MainClauseColor), Ch("F"), CloseSpan>>

\* C4: a closing bracket read while the stack is empty leaves the stack
\* empty, is appended as one main-clause span holding the bracket, and the
\* loop goes on to the next character.
C4_StrayCloser ==
    [][(cpc = "loop" /\ pos < Len(input) /\ input[pos + 1] \in Closers /\ stack = <<>>) =>
          /\ stack' = <<>>
          /\ current_color' = None
          /\ html' = (IF current_color # None THEN Append(html, CloseSpan) ELSE html)
                        \o <<OpenFg(MainClauseColor), Ch(input[pos + 1]), CloseSpan>>
          /\ pos' = pos + 1
          /\ cpc' = "loop"]_vars

\* the spec's example A)B, rendered to the end
C4_Witness ==
    /\ cpc = "done"
    /\ input = <<"A", ")", "B">>
    /\ html = <<OpenFg(MainClauseColor), Ch("A"), CloseSpan,
                OpenFg(MainClauseColor), Ch(")"), CloseSpan,
                OpenFg(MainClauseColor), Ch("B"), CloseSpan>>

Added == SubSeq(html', Len(html) + 1, Len(html'))

IsMarkup(p) == ~IsCh(p)

-----------------------------------------------------------------------------
(* Properties of index, parse_chunks and build_chunks_html, under Spec *)

\* the closed set of role tags: the eight of the colour table and the particle
CanonicalRoles == Keys(ROLE_COLORS) \cup {ZHUCI}

\* an item of a response whose text is a non-empty string
TextNonEmpty(it) == it.text.t = "str" /\ it.text.s # <<>>

\* the items of a response that have text, in the order of the response
Shown(items) == SelectSeq(items, TextNonEmpty)

\* the role string of an item as the response spells it, trimmed
Trimmed(it) == Strip(it.role.s)

\* the documented responses whose text is the one the handler holds
Held == {c \in DocCases : c.raw = raw}

\* C1 (as amended): every chunk parse_chunks returns has a role of the closed
\* set of nine tags; a role string that is a key of JP_ROLE_MAP yields the
\* canonical tag the table gives it, and a role string outside the table, the
\* closed set and the particle spelling JOSHI yields QITA.
C1_RolesCoerced ==
    /\ \A i \in 1..Len(chunks) : chunks[i].role \in CanonicalRoles
    /\ \A c \in Held :
          pc = "build" =>
             /\ Len(chunks) = Len(Shown(c.items))
             /\ \A i \in 1..Len(Shown(c.items)) :
                   LET it == Shown(c.items)[i]
                   IN  it.role.t = "str" =>
                          /\ Trimmed(it) \in Keys(JP_ROLE_MAP) =>
                                /\ chunks[i].role \in Keys(ROLE_COLORS)
                                /\ <<Trimmed(it), chunks[i].role>> \in JP_ROLE_MAP
                          /\ Trimmed(it) \notin (Keys(JP_ROLE_MAP) \cup CanonicalRoles \cup {JOSHI}) =>
                                chunks[i].role = QITA

\* a response whose one chunk is labelled with the particle spelling JOSHI
\* behind a full-width space has been parsed, and a response with an unknown
\* label too
C1_Witness ==
    /\ pc = "build"
    /\ \E c \in Held :
          /\ Len(c.items) = 1
          /\ TextNonEmpty(c.items[1])
          /\ c.items[1].role \in {JStr(<<"U3000">> \o JOSHI), JStr(<<" ", "x">>)}
          /\ Len(chunks) = 1
          /\ chunks[1].role \in {ZHUCI, QITA}

\* C1 as stated: every role string outside the table and the closed set
\* yields QITA
C1_Original ==
    \A c \in Held :
       pc = "build" =>
          /\ Len(chunks) = Len(Shown(c.items))
          /\ \A i \in 1..Len(Shown(c.items)) :
                LET it == Shown(c.items)[i]
                IN  (it.role.t = "str" /\ Trimmed(it) \notin (Keys(JP_ROLE_MAP) \cup CanonicalRoles)) =>
                       chunks[i].role = QITA

\* the request is a POST in which call_gemini raised, or parse_chunks raised
\* on the text it returned, or the colorizer raised on the value parsed
CallRaised == response.kind \in CallFailures

ParseRaised == response.kind = "text" /\ ~parse_chunks(Strip(response.text)).ok

ColorizeRaised ==
    /\ response.kind = "text"
    /\ parse_chunks(Strip(response.text)).ok
    /\ ~ColorizeValue(parse_chunks(Strip(response.text)).sentence_with_brackets).ok

Raised ==
    /\ method = "POST"
    /\ pc \in {"render", "idle"}
    /\ CallRaised \/ ParseRaised \/ ColorizeRaised

\* C5: in a POST in which the call, the parsing or the colorizing raises, the
\* handler goes on to render the page, the page it returns carries a non-empty
\* error message and shows no chunks, no bracketed sentence and no
\* translation, and call_gemini has been called at most once in the request.
C5_ErrorsSurface ==
    /\ calls <= 1
    /\ (Raised /\ pc = "render") => (error_msg # <<>> /\ ENABLED Render)
    /\ (Raised /\ pc = "idle") =>
          /\ page.rendered
          /\ page.error_msg # <<>>
          /\ page.chunks = <<>>
          /\ page.brackets = <<>>
          /\ page.translation = JStr(<<>>)

\* the page has been returned for a response whose chunks were built before
\* the colorizer raised
C5_Witness ==
    /\ pc = "idle"
    /\ ColorizeRaised
    /\ chunks_html # <<>>
    /\ calls = 1
    /\ page.rendered
    /\ page.error_msg # <<>>
    /\ page.chunks = <<>>

\* the wrapped responses whose text is the one the handler holds
HeldWrapped == {c \in WrapCases : c.raw = raw}

\* C6 as stated: a response that is an object text J in a fence, or J between
\* two pieces of prose without braces and brackets, is accepted and gives the
\* chunks, the translation and the bracketed sentence of J alone.
C6_Original ==
    \A c \in HeldWrapped :
       /\ pc = "parse" => parse_chunks(raw).ok
       /\ pc = "build" =>
             /\ chunks = parse_chunks(c.plain).chunks
             /\ translation_zh = parse_chunks(c.plain).translation_zh
             /\ sentence_with_brackets = parse_chunks(c.plain).sentence_with_brackets

\* C7: the fragments built from a parsed response are one per item whose text
\* is non-empty, in the order of the response, each with its item's text,
\* and none for an item whose text is empty, null or missing.
C7_OneFragmentPerChunk ==
    \A c \in Held :
       pc = "colorize" =>
          /\ Len(chunks_html) = Len(Shown(c.items))
          /\ \A i \in 1..Len(Shown(c.items)) : chunks_html[i].text = Shown(c.items)[i].text

\* three items, the second without text, gave two fragments of different
\* texts
C7_Witness ==
    /\ pc = "colorize"
    /\ \E c \in Held :
          /\ Len(c.items) = 3
          /\ c.items[2].text = JStr(<<>>)
          /\ Len(chunks_html) = 2
          /\ chunks_html[1].text = JStr(<<"B">>)
          /\ chunks_html[2].text = JStr(<<"A">>)

\* an item labelled as a particle, JOSHI or ZHUCI, whatever whitespace is
\* around the label
IsParticle(it) == it.role.t = "str" /\ Trimmed(it) \in {JOSHI, ZHUCI}

\* the tag of a role string that is no particle: the table's for a legacy
\* label, itself for a tag of the colour table, QITA otherwise
ExpectedRole(it) ==
    IF it.role.t = "missing" THEN QITA
    ELSE IF it.role.t # "str" THEN QITA
    ELSE IF Trimmed(it) \in Keys(JP_ROLE_MAP) THEN Lookup(JP_ROLE_MAP, Trimmed(it), QITA)
    ELSE IF Trimmed(it) \in Keys(ROLE_COLORS) THEN Trimmed(it)
    ELSE QITA

Neutral == "#eeeeee"

\* C8: an item with text whose label is a particle label gives a particle
\* marker without a fill colour that carries the item's note; every other
\* item with text gives a block filled with the colour of its role, which is
\* the neutral colour for QITA.
C8_ParticlesUnfilled ==
    \A c \in Held :
       pc = "colorize" =>
          /\ Len(chunks_html) = Len(Shown(c.items))
          /\ \A i \in 1..Len(Shown(c.items)) :
                LET it == Shown(c.items)[i]
                    f == chunks_html[i]
                IN  IF IsParticle(it)
                    THEN /\ f.class = "word particle"
                         /\ f.fill = None
                         /\ it.note.t = "str" => f.note = it.note
                    ELSE /\ f.class = "word"
                         /\ f.fill # None
                         /\ <<ExpectedRole(it), f.fill>> \in ROLE_COLORS
                         /\ ExpectedRole(it) = QITA => f.fill = Neutral

\* a particle labelled ZHUCI with a trailing space and a note has been
\* rendered
C8_Witness ==
    /\ pc = "colorize"
    /\ \E c \in Held :
          /\ Len(c.items) = 1
          /\ c.items[1] = [text |-> JStr(<<"A">>), role |-> JStr(ZHUCI \o <<" ">>),
                           note |-> JStr(<<"n">>)]
          /\ Len(chunks_html) = 1
          /\ chunks_html[1].class = "word particle"
          /\ chunks_html[1].fill = None
          /\ chunks_html[1].note = JStr(<<"n">>)

\* C9 as stated: an item labelled CONGJU is rendered with its text between
\* the full-width parentheses U+FF08 and U+FF09 and without its label.
C9_Original ==
    \A c \in Held :
       pc = "colorize" =>
          /\ Len(chunks_html) = Len(Shown(c.items))
          /\ \A i \in 1..Len(Shown(c.items)) :
                LET it == Shown(c.items)[i]
                IN  (it.role.t = "str" /\ Trimmed(it) = CONGJU) =>
                       /\ chunks_html[i].text = JStr(<<"UFF08">> \o it.text.s \o <<"UFF09">>)
                       /\ chunks_html[i].label = <<>>

=============================================================================
